---- MODULE Spec2Model ----
(***************************************************************************)
(* Markov-chain rock-paper-scissors (src/src/main.py).                     *)
(*                                                                         *)
(* The weights are IEEE-754 binary64 numbers (np.float64).  Every weight   *)
(* the program can hold is a sum/difference of the literals 0.11, 0.01,    *)
(* 0.1 and 1, so it is an integer multiple of 2^-59, and it is modelled    *)
(* exactly by a pair [c, e]:                                               *)
(*        value = c/100 + e * 2^-59 / 25                                   *)
(* c is the decimal part in hundredths, e the (small) binary residue.      *)
(* Addition and subtraction add the pairs exactly and then round to the    *)
(* nearest binary64 (ties to even), as the hardware does.                  *)
(***************************************************************************)
EXTENDS Integers, Sequences, FiniteSets, TLC

\* ---------------------------------------------------------------- bounds
MaxRounds == 5
MaxCalls == 12
MaxApiCalls == 2
PatternCalls == 50

\* game_handler executions in one process
MaxMatches == 2

\* lines of the long inputs
LongLines == 30

\* ------------------------------------------------------- binary64 numbers
Float(c, e) == [c |-> c, e |-> e]

FNeg(x) == [c |-> 0 - x.c, e |-> 0 - x.e]

FIsNeg(x) == x.c < 0 \/ (x.c = 0 /\ x.e < 0)

\* x <= y and x < y on exact values (|e| is far below 2^57, one hundredth)
FLe(x, y) == x.c < y.c \/ (x.c = y.c /\ x.e <= y.e)

FLt(x, y) == x.c < y.c \/ (x.c = y.c /\ x.e < y.e)

\* For x >= 0: k such that the spacing of binary64 numbers around x is
\* 2^(k-59); k = 0 below 2^-6, where every multiple of 2^-59 is exact.
UlpExp(x) ==
  IF x.c > 400 \/ (x.c = 400 /\ x.e >= 0) THEN 9
  ELSE IF x.c > 200 \/ (x.c = 200 /\ x.e >= 0) THEN 8
  ELSE IF x.c > 100 \/ (x.c = 100 /\ x.e >= 0) THEN 7
  ELSE IF x.c > 50 \/ (x.c = 50 /\ x.e >= 0) THEN 6
  ELSE IF x.c > 25 \/ (x.c = 25 /\ x.e >= 0) THEN 5
  ELSE IF x.c >= 13 THEN 4
  ELSE IF x.c >= 7 THEN 3
  ELSE IF x.c >= 4 THEN 2
  ELSE IF x.c >= 2 THEN 1
  ELSE 0

\* (c * 2^57 + e) mod (25 * 2^k): the exact value of x in units of
\* 2^-59/25, reduced modulo the spacing 2^(k-59).  2^20 = 1 (mod 25).
Residue(x, k) ==
  ((2^k) * (((x.c % 25) * ((2^((57 - k) % 20)) % 25)) % 25) + x.e) % (25 * 2^k)

\* round-to-nearest, ties-to-even, of an exact value x >= 0
RoundPos(x) ==
  LET k == UlpExp(x)
      S == 25 * 2^k
      r == Residue(x, k)
      down == [c |-> x.c, e |-> x.e - r]
      up == [c |-> x.c, e |-> x.e - r + S]
  IN IF k = 0 THEN x
     ELSE IF 2 * r < S THEN down
     ELSE IF 2 * r > S THEN up
     ELSE IF Residue(x, k + 1) < S THEN down ELSE up

Round(x) == IF FIsNeg(x) THEN FNeg(RoundPos(FNeg(x))) ELSE RoundPos(x)

\* binary64 x + y and x - y
FAdd(x, y) == Round([c |-> x.c + y.c, e |-> x.e + y.e])

FSub(x, y) == Round([c |-> x.c - y.c, e |-> x.e - y.e])

Zero == Float(0, 0)

One == Float(100, 0)

\* ------------------------------------------------------------ class States
EM == -1

VR == 0

VP == 1

VS == 2

LR == 3

LP == 4

LS == 5

TR == 6

TP == 7

TS == 8

\* the values of the enum members; States(v) raises ValueError otherwise
StatesValues == EM .. TS

ConcreteStates == VR .. TS

Moves == 0 .. 2

\* a local that has not been assigned yet / a matrix index that was not used
Unset == -99

\* ------------------------------------------------------- module constants
\* slip: the dictionary read the other way round (what is beaten by what)
what_beats_what_reversed == [m \in Moves |-> CASE m = 0 -> 1 [] m = 1 -> 2 [] m = 2 -> 0]

what_beats_what_dict == [m \in Moves |-> CASE m = 0 -> 2 [] m = 1 -> 0 [] m = 2 -> 1]

\* the binary64 nearest to 0.01
decrease_value == Float(1, 3)

\* the binary64 nearest to 0.1
increase_value == Float(10, 80)

upper_limit == FAdd(FSub(One, increase_value), decrease_value)

bottom_limit == FAdd(Zero, decrease_value)

\* the binary64 nearest to 0.11, the literal of every cell
InitialCell == Float(11, 8)

\* slip: one of the 81 literals mistyped as 0.1
InitialMatrixTypo ==
  [r \in ConcreteStates |-> [col \in ConcreteStates |->
     IF r = TS /\ col = TS THEN Float(10, 80) ELSE InitialCell]]

InitialMatrix == [r \in ConcreteStates |-> [col \in ConcreteStates |-> InitialCell]]

\* ------------------------------------------------ results of a call
\* a call either returns val or raises err; matrix is the table it leaves,
\* row/col the matrix coordinates it used (Unset when it used none)
Return(v, M, r, col) == [err |-> "none", val |-> v, matrix |-> M, row |-> r, col |-> col]

Raise(x, M, r, col) == [err |-> x, val |-> Unset, matrix |-> M, row |-> r, col |-> col]

\* numpy indexing of a length-9 axis: a negative index counts from the end
NpIndex(i) == IF i < 0 THEN i + 9 ELSE i

\* ------------------------------------------------------------ player_move
\* the value returned for one line of input, Unset when the loop re-prompts
player_move(line) ==
  CASE line = "1" -> 0
    [] line = "2" -> 1
    [] line = "3" -> 2
    [] OTHER -> Unset

\* ---------------------------------------------------------- computer_move
\* slip: the last index holding the maximum
ArgMaxLast(v) ==
  IF FLt(v[1], v[0])
  THEN (IF FLt(v[2], v[0]) THEN 0 ELSE 2)
  ELSE (IF FLt(v[2], v[1]) THEN 1 ELSE 2)

\* np.argmax of a 3-vector: the first index holding the maximum
ArgMax(v) ==
  IF FLt(v[0], v[1])
  THEN (IF FLt(v[1], v[2]) THEN 2 ELSE 1)
  ELSE (IF FLt(v[0], v[2]) THEN 2 ELSE 0)

\* slip: the columns grouped by outcome (3m, 3m+1, 3m+2) instead of by move
DecisionVectorByOutcome(vector) ==
  [m \in Moves |-> FAdd(FAdd(vector[3 * m], vector[3 * m + 1]), vector[3 * m + 2])]

DecisionVector(vector) ==
  [m \in Moves |-> FAdd(FAdd(vector[m], vector[m + 3]), vector[m + 6])]

counter_plays == [m \in Moves |-> CASE m = 2 -> 0 [] m = 1 -> 2 [] m = 0 -> 1]

\* the deterministic branch; the random branch is drawn by the caller
computer_move(M, last_move_outcome, rnd) ==
  IF last_move_outcome = EM
  THEN Return(rnd, M, Unset, Unset)
  ELSE LET vector == M[NpIndex(last_move_outcome)]
       IN Return(counter_plays[ArgMax(DecisionVector(vector))], M,
                 last_move_outcome, Unset)

\* ---------------------------------------------------- decide_round_result
\* slip: the dictionary looked up with the computer's move
decide_round_result_computer_first(player_choice, computer_choice, M) ==
  IF player_choice = computer_choice THEN Return(0, M, Unset, Unset)
  ELSE IF computer_choice \notin DOMAIN what_beats_what_dict
       THEN Raise("KeyError", M, Unset, Unset)
  ELSE IF what_beats_what_dict[computer_choice] = player_choice
       THEN Return(1, M, Unset, Unset)
  ELSE Return(-1, M, Unset, Unset)

decide_round_result(player_choice, computer_choice, M) ==
  IF player_choice = computer_choice THEN Return(0, M, Unset, Unset)
  ELSE IF player_choice \notin DOMAIN what_beats_what_dict
       THEN Raise("KeyError", M, Unset, Unset)
  ELSE IF what_beats_what_dict[player_choice] = computer_choice
       THEN Return(1, M, Unset, Unset)
  ELSE Return(-1, M, Unset, Unset)

\* --------------------------------------------------- update_probabilities
\* slip: the offsets of loss and tie exchanged
StateValueSwapped(player_choice, round_result) ==
  IF round_result = 1 THEN player_choice
  ELSE IF round_result = -1 THEN player_choice + 6
  ELSE player_choice + 3

\* the value handed to States(...)
StateValue(player_choice, round_result) ==
  IF round_result = 1 THEN player_choice
  ELSE IF round_result = -1 THEN player_choice + 3
  ELSE player_choice + 6

\* np.min(vector)
RECURSIVE MinUpTo(_, _)
MinUpTo(vector, n) ==
  IF n = 0 THEN vector[0]
  ELSE LET m == MinUpTo(vector, n - 1)
       IN IF FLt(vector[n], m) THEN vector[n] ELSE m

NpMin(vector) == MinUpTo(vector, 8)

\* slip: the test of the observed cell against upper_limit left out
GuardNoUpper(vector, col) == FLe(bottom_limit, NpMin(vector))

\* slip: the test of the row minimum against bottom_limit left out
GuardNoMin(vector, col) == FLe(vector[col], upper_limit)

Guard(vector, col) ==
  FLe(vector[col], upper_limit) /\ FLe(bottom_limit, NpMin(vector))

\* slip: the decrease applied to the other cells only
ReinforcedNoDecay(vector, col) ==
  [j \in ConcreteStates |->
     IF j = col THEN FAdd(vector[j], increase_value)
     ELSE FSub(vector[j], decrease_value)]

\* vector[0:] = vector[0:] - decrease_value; vector[col] += increase_value
Reinforced(vector, col) ==
  [j \in ConcreteStates |->
     IF j = col THEN FAdd(FSub(vector[j], decrease_value), increase_value)
     ELSE FSub(vector[j], decrease_value)]

\* slip: the test last_move_outcome != States.EM left out
update_probabilities_no_empty_test(M, player_choice, round_result, last_move_outcome) ==
  LET v == StateValue(player_choice, round_result)
  IN IF v \notin StatesValues THEN Raise("ValueError", M, Unset, Unset)
     ELSE LET row == NpIndex(last_move_outcome)
              col == NpIndex(v)
              vector == M[row]
          IN IF Guard(vector, col)
             THEN Return(v, [M EXCEPT ![row] = Reinforced(vector, col)],
                         last_move_outcome, v)
             ELSE Return(v, M, last_move_outcome, v)

update_probabilities(M, player_choice, round_result, last_move_outcome) ==
  LET v == StateValue(player_choice, round_result)
  IN IF v \notin StatesValues THEN Raise("ValueError", M, Unset, Unset)
     ELSE IF last_move_outcome = EM THEN Return(v, M, Unset, Unset)
     ELSE LET row == NpIndex(last_move_outcome)
              col == NpIndex(v)
              vector == M[row]
          IN IF Guard(vector, col)
             THEN Return(v, [M EXCEPT ![row] = Reinforced(vector, col)],
                         last_move_outcome, v)
             ELSE Return(v, M, last_move_outcome, v)

\* ------------------------------------------------------------------ state
VARIABLES
  transition_matrix,   \* the module-level 9x9 table
  last_move_outcome,   \* game_handler local / the previous state under test
  round_counter,       \* game_handler local
  score,               \* game_handler local
  player_choice,       \* game_handler local
  computer_choice,     \* game_handler local
  round_result,        \* game_handler local
  pc,                  \* position in game_handler
  index_used,          \* matrix coordinates used by the latest matrix access
  call,                \* the latest direct call of a core function
  ret,                 \* what that call returned or raised
  calls,               \* number of direct calls made
  stdin                \* the lines of standard input not yet read

vars == <<transition_matrix, last_move_outcome, round_counter, score,
          player_choice, computer_choice, round_result, pc, index_used,
          call, ret, calls, stdin>>

game_locals == <<round_counter, score, player_choice, computer_choice,
                 round_result, pc>>

NoIndex == [row |-> Unset, col |-> Unset]

NoCall == [fn |-> "none", a |-> Unset, b |-> Unset, last |-> Unset]

NoRet == [err |-> "none", val |-> Unset]

\* the lines a player may type; "0", "4" and "" are re-prompted
InputLines == {"1", "2", "3", "0", "4", ""}

ValidLines == {"1", "2", "3"}

\* n times the same line
RepeatLine(line, n) == [i \in 1 .. n |-> line]

\* the lines of a player who wins ten rounds in a row when the first draw is
\* rock
WinningLines == <<"2", "3", "3", "2", "2", "1", "3", "1", "2", "3">>

\* the lines of a player who is level after thirty rounds when the first
\* draw is rock
LevelLines ==
  <<"2", "2", "2", "2", "2", "3", "2", "3", "3", "3",
    "1", "2", "1", "3", "1", "3", "2", "1", "1", "1",
    "2", "2", "3", "2", "1", "2", "2", "3", "3", "3">>

\* the lines of a player whose eleventh transition out of a tie with paper
\* takes the unobserved cells of row TP below bottom_limit, when the first
\* draw is paper; the update of round 28 is rejected
WornRowLines ==
  <<"2", "2", "1", "2", "1", "2", "2", "3", "2", "3",
    "3", "3", "1", "2", "3", "1", "3", "2", "1", "3",
    "2", "1", "1", "1", "2", "2", "2", "3", "1", "1">>

\* The standard inputs tried: every input of at most MaxRounds lines with at
\* most one line that is re-prompted, one line repeated LongLines times, and
\* the three long inputs above.
ShortInputs ==
  UNION {{line \in [1 .. n -> InputLines] :
            Cardinality({i \in 1 .. n : line[i] \notin ValidLines}) <= 1} :
         n \in 0 .. MaxRounds}

LongInputs ==
  {RepeatLine(line, LongLines) : line \in ValidLines}
    \cup {WinningLines, LevelLines, WornRowLines}

StandardInputs == ShortInputs \cup LongInputs

\* ------------------------------------------------------------ game_handler
Init ==
  /\ transition_matrix = InitialMatrix
  /\ last_move_outcome = EM
  /\ round_counter = 0
  /\ score = 0
  /\ player_choice = Unset
  /\ computer_choice = Unset
  /\ round_result = Unset
  /\ pc = "while"
  /\ index_used = NoIndex
  /\ call = NoCall
  /\ ret = NoRet
  /\ calls = 0
  /\ stdin \in StandardInputs

\* slip: the score limits made inclusive
LoopConditionInclusive == round_counter < 30 /\ 10 >= score /\ score >= -10

LoopCondition == round_counter < 30 /\ 10 > score /\ score > -10

\* while-test passed, then player_move(): input() returns the next line of
\* standard input; a line that is not a move is answered 'Wrong choice!' and
\* the next one is asked for
PlayerMove(line) ==
  /\ pc = "while"
  /\ LoopCondition
  /\ stdin # <<>>
  /\ line = Head(stdin)
  /\ stdin' = Tail(stdin)
  /\ IF player_move(line) = Unset
     THEN UNCHANGED <<transition_matrix, last_move_outcome, round_counter,
                      score, player_choice, computer_choice, round_result,
                      pc, index_used, call, ret, calls>>
     ELSE /\ player_choice' = player_move(line)
          /\ pc' = "computer_move"
          /\ UNCHANGED <<transition_matrix, last_move_outcome, round_counter,
                         score, computer_choice, round_result, index_used,
                         call, ret, calls>>

\* input() at the end of standard input raises EOFError, which nothing
\* catches: the process ends
EndOfInput ==
  /\ pc = "while"
  /\ LoopCondition
  /\ stdin = <<>>
  /\ pc' = "EOFError"
  /\ UNCHANGED <<transition_matrix, last_move_outcome, round_counter, score,
                 player_choice, computer_choice, round_result, index_used,
                 call, ret, calls, stdin>>

\* slip: the computer answers the move the player has just entered
ComputerMovePeeking(rnd) ==
  /\ pc = "computer_move"
  /\ LET res == computer_move(transition_matrix, last_move_outcome, rnd)
     IN /\ computer_choice' = counter_plays[player_choice]
        /\ index_used' = [row |-> res.row, col |-> res.col]
  /\ pc' = "decide_round_result"
  /\ UNCHANGED <<transition_matrix, last_move_outcome, round_counter, score,
                 player_choice, round_result, call, ret, calls, stdin>>

ComputerMove(rnd) ==
  /\ pc = "computer_move"
  /\ LET res == computer_move(transition_matrix, last_move_outcome, rnd)
     IN /\ computer_choice' = res.val
        /\ index_used' = [row |-> res.row, col |-> res.col]
  /\ pc' = "decide_round_result"
  /\ UNCHANGED <<transition_matrix, last_move_outcome, round_counter, score,
                 player_choice, round_result, call, ret, calls, stdin>>

DecideRoundResult ==
  /\ pc = "decide_round_result"
  /\ round_result' =
       decide_round_result(player_choice, computer_choice, transition_matrix).val
  /\ pc' = "update_probabilities"
  /\ UNCHANGED <<transition_matrix, last_move_outcome, round_counter, score,
                 player_choice, computer_choice, index_used, call, ret, calls,
                 stdin>>

\* slip: the previous state replaced by the new one before the update
UpdateProbabilitiesAfterReplace ==
  /\ pc = "update_probabilities"
  /\ LET res == update_probabilities(transition_matrix, player_choice,
                                     round_result,
                                     StateValue(player_choice, round_result))
     IN /\ transition_matrix' = res.matrix
        /\ last_move_outcome' = res.val
        /\ index_used' = [row |-> res.row, col |-> res.col]
  /\ score' = score + round_result
  /\ round_counter' = round_counter + 1
  /\ pc' = "while"
  /\ UNCHANGED <<player_choice, computer_choice, round_result, call, ret, calls,
                 stdin>>

\* lines 198-200: the update, then score and round_counter
UpdateProbabilities ==
  /\ pc = "update_probabilities"
  /\ LET res == update_probabilities(transition_matrix, player_choice,
                                     round_result, last_move_outcome)
     IN /\ transition_matrix' = res.matrix
        /\ last_move_outcome' = res.val
        /\ index_used' = [row |-> res.row, col |-> res.col]
  /\ score' = score + round_result
  /\ round_counter' = round_counter + 1
  /\ pc' = "while"
  /\ UNCHANGED <<player_choice, computer_choice, round_result, call, ret, calls,
                 stdin>>

GameOver ==
  /\ pc = "while"
  /\ ~LoopCondition
  /\ pc' = "done"
  /\ UNCHANGED <<transition_matrix, last_move_outcome, round_counter, score,
                 player_choice, computer_choice, round_result, index_used,
                 call, ret, calls, stdin>>

Next ==
  \/ \E line \in InputLines : PlayerMove(line)
  \/ EndOfInput
  \/ \E rnd \in Moves : ComputerMove(rnd)
  \/ DecideRoundResult
  \/ UpdateProbabilities
  \/ GameOver

Spec == Init /\ [][Next]_vars

\* ------------------------------------------------- a match fed by a stream
\* Standard input is a pipe whose writer repeats a block of lines for ever,
\* so input() always returns; every block holds a line that is a move.
StreamBlocks ==
  {<<a>> : a \in ValidLines}
    \cup {<<a, b>> : a \in InputLines, b \in ValidLines}
    \cup {<<a, b>> : a \in ValidLines, b \in InputLines}
    \cup {WinningLines, LevelLines, WornRowLines}

InitFair ==
  /\ transition_matrix = InitialMatrix
  /\ last_move_outcome = EM
  /\ round_counter = 0
  /\ score = 0
  /\ player_choice = Unset
  /\ computer_choice = Unset
  /\ round_result = Unset
  /\ pc = "while"
  /\ index_used = NoIndex
  /\ call = NoCall
  /\ ret = NoRet
  /\ calls = 0
  /\ stdin \in StreamBlocks

\* while-test passed, then player_move(): the line read is the next of the
\* stream, whose writer will write it again after the rest of the block
PlayerMoveFromStream(line) ==
  /\ pc = "while"
  /\ LoopCondition
  /\ line = Head(stdin)
  /\ stdin' = Append(Tail(stdin), line)
  /\ IF player_move(line) = Unset
     THEN UNCHANGED <<transition_matrix, last_move_outcome, round_counter,
                      score, player_choice, computer_choice, round_result,
                      pc, index_used, call, ret, calls>>
     ELSE /\ player_choice' = player_move(line)
          /\ pc' = "computer_move"
          /\ UNCHANGED <<transition_matrix, last_move_outcome, round_counter,
                         score, computer_choice, round_result, index_used,
                         call, ret, calls>>

NextFair ==
  \/ \E line \in InputLines : PlayerMoveFromStream(line)
  \/ \E rnd \in Moves : ComputerMove(rnd)
  \/ DecideRoundResult
  \/ UpdateProbabilities
  \/ GameOver

\* The process is sequential and keeps running: the step at the position
\* reached is taken. computer_move and update_probabilities have no
\* condition but the position, so their steps are the steps that leave it.
SpecFair ==
  /\ InitFair
  /\ [][NextFair]_vars
  /\ WF_vars(\E line \in InputLines : PlayerMoveFromStream(line))
  /\ WF_pc(pc = "computer_move" /\ pc' = "decide_round_result")
  /\ WF_vars(DecideRoundResult)
  /\ WF_pc(pc = "update_probabilities" /\ pc' = "while")
  /\ WF_vars(GameOver)

\* ------------------------------------------- repeated reinforcement of a row
\* update_probabilities and computer_move are called directly, again and
\* again with the same previous state, on the table the calls leave behind.
RowsTried == {VR, LP, TS}

\* (player_choice, round_result): observed states VR, LP, TS
InputsTried == {<<0, 1>>, <<1, -1>>, <<2, 0>>}

InitReinforce ==
  /\ transition_matrix = InitialMatrix
  /\ last_move_outcome \in RowsTried
  /\ round_counter = 0
  /\ score = 0
  /\ player_choice = Unset
  /\ computer_choice = Unset
  /\ round_result = Unset
  /\ pc = "direct"
  /\ index_used = NoIndex
  /\ call = NoCall
  /\ ret = NoRet
  /\ calls = 0
  /\ stdin = <<>>

Reinforce(pm, rr) ==
  /\ calls < MaxCalls
  /\ LET res == update_probabilities(transition_matrix, pm, rr, last_move_outcome)
     IN /\ transition_matrix' = res.matrix
        /\ ret' = [err |-> res.err, val |-> res.val]
        /\ index_used' = [row |-> res.row, col |-> res.col]
  /\ call' = [fn |-> "update_probabilities", a |-> pm, b |-> rr,
              last |-> last_move_outcome]
  /\ calls' = calls + 1
  /\ UNCHANGED <<last_move_outcome, game_locals, stdin>>

Decide ==
  /\ call.fn # "computer_move"
  /\ LET res == computer_move(transition_matrix, last_move_outcome, 0)
     IN /\ ret' = [err |-> res.err, val |-> res.val]
        /\ index_used' = [row |-> res.row, col |-> res.col]
  /\ call' = [fn |-> "computer_move", a |-> Unset, b |-> Unset,
              last |-> last_move_outcome]
  /\ UNCHANGED <<transition_matrix, last_move_outcome, game_locals, calls, stdin>>

NextReinforce ==
  \/ \E inp \in InputsTried : Reinforce(inp[1], inp[2])
  \/ Decide

SpecReinforce == InitReinforce /\ [][NextReinforce]_vars

\* ------------------------------------------------ direct calls, any argument
\* the core functions called with arguments inside and outside their domain
MoveInputs == -1 .. 3

ResultInputs == {1, -1, 0}

LastTried == {EM, VR, LP}

InitApi ==
  /\ transition_matrix = InitialMatrix
  /\ last_move_outcome = EM
  /\ round_counter = 0
  /\ score = 0
  /\ player_choice = Unset
  /\ computer_choice = Unset
  /\ round_result = Unset
  /\ pc = "direct"
  /\ index_used = NoIndex
  /\ call = NoCall
  /\ ret = NoRet
  /\ calls = 0
  /\ stdin = <<>>

ApiEvaluate(pm, cm) ==
  /\ calls < MaxApiCalls
  /\ LET res == decide_round_result(pm, cm, transition_matrix)
     IN /\ transition_matrix' = res.matrix
        /\ ret' = [err |-> res.err, val |-> res.val]
        /\ index_used' = [row |-> res.row, col |-> res.col]
  /\ call' = [fn |-> "decide_round_result", a |-> pm, b |-> cm, last |-> Unset]
  /\ calls' = calls + 1
  /\ UNCHANGED <<last_move_outcome, game_locals, stdin>>

ApiUpdate(pm, rr, last) ==
  /\ calls < MaxApiCalls
  /\ LET res == update_probabilities(transition_matrix, pm, rr, last)
     IN /\ transition_matrix' = res.matrix
        /\ ret' = [err |-> res.err, val |-> res.val]
        /\ index_used' = [row |-> res.row, col |-> res.col]
  /\ call' = [fn |-> "update_probabilities", a |-> pm, b |-> rr, last |-> last]
  /\ calls' = calls + 1
  /\ UNCHANGED <<last_move_outcome, game_locals, stdin>>

ApiDecide(last, rnd) ==
  /\ calls < MaxApiCalls
  /\ LET res == computer_move(transition_matrix, last, rnd)
     IN /\ transition_matrix' = res.matrix
        /\ ret' = [err |-> res.err, val |-> res.val]
        /\ index_used' = [row |-> res.row, col |-> res.col]
  /\ call' = [fn |-> "computer_move", a |-> Unset, b |-> Unset, last |-> last]
  /\ calls' = calls + 1
  /\ UNCHANGED <<last_move_outcome, game_locals, stdin>>

NextApi ==
  \/ \E pm \in MoveInputs, cm \in MoveInputs : ApiEvaluate(pm, cm)
  \/ \E pm \in MoveInputs, rr \in ResultInputs, last \in LastTried :
       ApiUpdate(pm, rr, last)
  \/ \E last \in LastTried, rnd \in Moves : ApiDecide(last, rnd)

SpecApi == InitApi /\ [][NextApi]_vars

\* ================================================================ claims
Cells == {transition_matrix[r][col] : r \in ConcreteStates, col \in ConcreteStates}

LastCallWas(fn) == call.fn = fn

\* C1: after any sequence of update_probabilities calls every one of the
\* 81 cells of the weight matrix is within the closed interval [0, 1].
CellsWithinUnitInterval ==
  \A r \in ConcreteStates : \A col \in ConcreteStates :
    /\ FLe(Zero, transition_matrix[r][col])
    /\ FLe(transition_matrix[r][col], One)

\* a row has been driven to both ends: one cell in the last hundredth below
\* 1 and another below one hundredth
WitnessUnitInterval ==
  /\ LastCallWas("update_probabilities")
  /\ \E x \in Cells : FLt(Float(99, 0), x)
  /\ \E x \in Cells : FLt(x, Float(1, 0))

\* C2 as stated: after every update_probabilities call every cell is within
\* [bottom_limit, 1], so no cell is ever below 0.01.
CellsAtLeastBottomLimit ==
  \A x \in Cells : FLe(bottom_limit, x) /\ FLe(x, One)

\* C2 amended: every cell is within [bottom_limit - decrease_value, 1]: the
\* guard tests the row before the subtraction, so a cell may end one
\* decrease_value below bottom_limit, but never lower (and never above 1).
CellsAtLeastBottomLimitLessDecrease ==
  \A x \in Cells : FLe(FSub(bottom_limit, decrease_value), x) /\ FLe(x, One)

\* a call has left a cell below bottom_limit
WitnessBelowBottomLimit ==
  /\ LastCallWas("update_probabilities")
  /\ \E x \in Cells : FLt(x, bottom_limit)

\* |x.e - y.e| <= one spacing of binary64 at 1.0 (2^-52)
ResidueWithinEpsilon(x, y) == x.e - y.e <= 3200 /\ y.e - x.e <= 3200

\* C3: update_probabilities(p, o) changes row p exactly when
\* row[p][o] <= upper_limit and min(row p) >= bottom_limit; when it does,
\* every cell has decrease_value subtracted and cell (p, o) then has
\* increase_value added, so (p, o) gains 0.09 and each other cell of the row
\* loses 0.01 (to within the rounding of binary64).
ReinforceGuardAndEffect ==
  [][(call'.fn = "update_probabilities" /\ calls' = calls + 1) =>
      LET p == call'.last
          o == ret'.val
          old == transition_matrix[p]
          new == transition_matrix'[p]
          passes == /\ FLe(old[o], upper_limit)
                    /\ \A j \in ConcreteStates : FLe(bottom_limit, old[j])
      IN /\ (new # old) <=> passes
         /\ passes =>
              /\ new[o] = FAdd(FSub(old[o], decrease_value), increase_value)
              /\ new[o].c = old[o].c + 9
              /\ ResidueWithinEpsilon(new[o], old[o])
              /\ \A j \in ConcreteStates \ {o} :
                   /\ new[j] = FSub(old[j], decrease_value)
                   /\ new[j].c = old[j].c - 1
                   /\ ResidueWithinEpsilon(new[j], old[j])]_vars

\* the observed cell has been reinforced twice and the rest decayed twice
WitnessReinforced ==
  /\ LastCallWas("update_probabilities")
  /\ transition_matrix[call.last][ret.val].c = 29
  /\ \E j \in ConcreteStates : transition_matrix[call.last][j].c = 9

\* C4: for a concrete previous state s, computer_move returns the counter of
\* the predicted move: bucket(m) is the (binary64, left to right) sum of the
\* cells m, m+3, m+6 of row s, predicted the largest bucket with ties going
\* to the lowest index, counter is rock->paper, paper->scissors,
\* scissors->rock; with three equal buckets the answer is paper (1).
DecideReturnsCounterOfPredicted ==
  (LastCallWas("computer_move") /\ call.last \in ConcreteStates) =>
    LET row == transition_matrix[call.last]
        bucket == [m \in Moves |-> FAdd(FAdd(row[m], row[m + 3]), row[m + 6])]
        predicted == CHOOSE m \in Moves :
                       /\ \A k \in Moves : FLe(bucket[k], bucket[m])
                       /\ \A k \in 0 .. (m - 1) : FLt(bucket[k], bucket[m])
    IN /\ ret.err = "none"
       /\ ret.val = (predicted + 1) % 3
       /\ (predicted = 0 => ret.val = 1)
       /\ (predicted = 1 => ret.val = 2)
       /\ (predicted = 2 => ret.val = 0)
       /\ (bucket[0] = bucket[1] /\ bucket[1] = bucket[2]) => ret.val = 1

\* a reinforced row whose rock and scissors buckets tie above paper's:
\* the tie goes to rock and the answer is paper
WitnessDecideTie ==
  /\ LastCallWas("computer_move")
  /\ call.last \in ConcreteStates
  /\ transition_matrix[call.last] # InitialMatrix[call.last]
  /\ LET v == DecisionVector(transition_matrix[call.last])
     IN v[0] = v[2] /\ FLt(v[1], v[0])
  /\ ret.val = 1

\* C5: decide_round_result and counter_plays use the same 3-cycle: the
\* counter of m beats m, so with a concrete previous state the player loses
\* the round exactly when the move thrown is the predicted one.
PlayerLosesExactlyOnPredictedMove ==
  /\ \A m \in Moves :
       /\ decide_round_result(m, counter_plays[m], transition_matrix).val = -1
       /\ what_beats_what_dict[counter_plays[m]] = m
  /\ (pc = "update_probabilities" /\ last_move_outcome # EM) =>
       (round_result = -1 <=>
          player_choice = ArgMax(DecisionVector(transition_matrix[last_move_outcome])))

\* a round lost against a row that has been reinforced
WitnessLostToCounter ==
  /\ pc = "update_probabilities"
  /\ last_move_outcome # EM
  /\ transition_matrix[last_move_outcome] # InitialMatrix[last_move_outcome]
  /\ round_result = -1

\* C6: decide_round_result on the 9 pairs of moves: equal moves tie, distinct
\* moves never tie, a wins against b iff b loses against a, and the player
\* wins exactly when player = (computer + 1) mod 3.
EvaluateTieAndAntisymmetry ==
  (LastCallWas("decide_round_result") /\ call.a \in Moves /\ call.b \in Moves) =>
    /\ ret.err = "none"
    /\ ret.val \in {0, 1, -1}
    /\ (ret.val = 0) <=> (call.a = call.b)
    /\ (ret.val = 1) <=>
         (decide_round_result(call.b, call.a, transition_matrix).val = -1)
    /\ (ret.val = 1) <=> (call.a = (call.b + 1) % 3)

\* rock against scissors was evaluated as a win
WitnessEvaluateWin ==
  /\ LastCallWas("decide_round_result")
  /\ call.a = 0 /\ call.b = 2
  /\ ret.val = 1

\* C7: the state update_probabilities returns is move for a win, move+3 for
\* a loss, move+6 for a tie: a bijection from the 9 (move, outcome) pairs
\* onto the 9 concrete states, never EM, whatever the previous state and
\* the matrix.
EncodeIsBijection ==
  (LastCallWas("update_probabilities") /\ call.a \in Moves) =>
    /\ ret.err = "none"
    /\ ret.val \in ConcreteStates
    /\ ret.val = call.a + (CASE call.b = 1 -> 0 [] call.b = -1 -> 3 [] call.b = 0 -> 6)
    /\ \A m \in Moves : \A r \in ResultInputs :
         (update_probabilities(InitialMatrix, m, r, EM).val = ret.val)
           <=> (m = call.a /\ r = call.b)

\* a tie with scissors encoded after previous state LP, on a matrix that an
\* earlier call had already changed
WitnessEncode ==
  /\ LastCallWas("update_probabilities")
  /\ call.a = 2 /\ call.b = 0 /\ call.last = LP
  /\ transition_matrix[VR] # InitialMatrix[VR]
  /\ ret.val = TS

\* C8: EM is never a matrix coordinate: last_move_outcome is EM exactly
\* until the first round has been scored and concrete afterwards;
\* computer_move(EM) reads no row, update_probabilities with EM changes no
\* cell, and every row and column index used lies in 0..8.
EmptyNeverIndexesMatrix ==
  /\ last_move_outcome \in StatesValues
  /\ (last_move_outcome = EM) <=> (round_counter = 0)
  /\ index_used.row \in ConcreteStates \cup {Unset}
  /\ index_used.col \in ConcreteStates \cup {Unset}
  /\ (round_counter = 0) => index_used = NoIndex
  /\ (round_counter = 1 /\ pc = "while") => index_used = NoIndex
  /\ (round_counter <= 1) => transition_matrix = InitialMatrix
  /\ (round_counter >= 1 /\ pc \in {"decide_round_result", "update_probabilities"})
       => index_used = [row |-> last_move_outcome, col |-> Unset]

\* the first round has been scored with previous state EM
WitnessFirstRoundScored ==
  /\ round_counter = 1
  /\ pc = "while"
  /\ last_move_outcome \in ConcreteStates
  /\ index_used = NoIndex
  /\ transition_matrix = InitialMatrix

\* C9: a move outside {0,1,2} passed to decide_round_result or
\* update_probabilities is rejected: the call raises, returns nothing and
\* leaves the matrix unchanged.
InvalidMoveRejected ==
  [][(/\ calls' = calls + 1
      /\ \/ call'.fn = "decide_round_result" /\ (call'.a \notin Moves \/ call'.b \notin Moves)
         \/ call'.fn = "update_probabilities" /\ call'.a \notin Moves)
     => (ret'.err # "none" /\ transition_matrix' = transition_matrix)]_vars

\* the table after k calls update_probabilities(0, 1, VR) from the start
RECURSIVE BoundaryScenario(_)
BoundaryScenario(k) ==
  IF k = 0 THEN InitialMatrix
  ELSE update_probabilities(BoundaryScenario(k - 1), 0, 1, VR).matrix

\* one more call of the boundary scenario
BoundaryStep ==
  /\ last_move_outcome = VR
  /\ transition_matrix = BoundaryScenario(calls)
  /\ calls' = calls + 1
  /\ call' = [fn |-> "update_probabilities", a |-> 0, b |-> 1, last |-> VR]

\* C10 as stated: in the boundary scenario cell (VR, VR) grows on every
\* call made while it is <= upper_limit, and no applied update takes it
\* above upper_limit or another cell of the row below bottom_limit.
BoundaryScenarioAsStated ==
  [][BoundaryStep =>
      LET old == transition_matrix[VR]
          new == transition_matrix'[VR]
      IN /\ FLe(old[VR], upper_limit) => FLt(old[VR], new[VR])
         /\ (new # old) =>
              /\ FLe(new[VR], upper_limit)
              /\ \A j \in ConcreteStates \ {VR} : FLe(bottom_limit, new[j])]_vars

\* C10 amended: cell (VR, VR) grows on every call made while it is
\* <= upper_limit; the row is frozen once the cell exceeds upper_limit, which
\* the ninth update (applied at 0.83) makes it do; no applied update takes
\* the cell above 1 or another cell of the row below bottom_limit.
BoundaryScenarioAmended ==
  [][BoundaryStep =>
      LET old == transition_matrix[VR]
          new == transition_matrix'[VR]
      IN /\ FLe(old[VR], upper_limit) => FLt(old[VR], new[VR])
         /\ (~FLe(old[VR], upper_limit)) => transition_matrix' = transition_matrix
         /\ (new # old) =>
              /\ FLe(old[VR], upper_limit)
              /\ FLe(new[VR], One)
              /\ \A j \in ConcreteStates \ {VR} : FLe(bottom_limit, new[j])]_vars

\* the tenth call of the scenario has been made and was rejected: the cell
\* stands at 0.92, the others at 0.02
WitnessBoundaryFrozen ==
  /\ last_move_outcome = VR
  /\ calls = 10
  /\ call = [fn |-> "update_probabilities", a |-> 0, b |-> 1, last |-> VR]
  /\ transition_matrix = BoundaryScenario(9)
  /\ transition_matrix[VR][VR].c = 92
  /\ transition_matrix[VR][VP].c = 2

\* ------------------------------------------- the repeated-pattern scenario
\* row VR is reinforced PatternCalls times, every time with a state whose
\* move is rock (VR, LR or TR), and computer_move(VR) is asked in between
PatternInputs == {<<0, 1>>, <<0, -1>>, <<0, 0>>}

InitPattern ==
  /\ transition_matrix = InitialMatrix
  /\ last_move_outcome = VR
  /\ round_counter = 0
  /\ score = 0
  /\ player_choice = Unset
  /\ computer_choice = Unset
  /\ round_result = Unset
  /\ pc = "direct"
  /\ index_used = NoIndex
  /\ call = NoCall
  /\ ret = NoRet
  /\ calls = 0
  /\ stdin = <<>>

ReinforceRock(pm, rr) ==
  /\ calls < PatternCalls
  /\ LET res == update_probabilities(transition_matrix, pm, rr, last_move_outcome)
     IN /\ transition_matrix' = res.matrix
        /\ ret' = [err |-> res.err, val |-> res.val]
        /\ index_used' = [row |-> res.row, col |-> res.col]
  /\ call' = [fn |-> "update_probabilities", a |-> pm, b |-> rr,
              last |-> last_move_outcome]
  /\ calls' = calls + 1
  /\ UNCHANGED <<last_move_outcome, game_locals, stdin>>

NextPattern ==
  \/ \E inp \in PatternInputs : ReinforceRock(inp[1], inp[2])
  \/ Decide

SpecPattern == InitPattern /\ [][NextPattern]_vars

\* C11: while every update of row VR observes a state whose move is rock,
\* the rock bucket of the row exceeds the other two as soon as one update
\* has been applied, and computer_move(VR) returns paper (1) at every call,
\* before, during and after the updates, also once the row is frozen.
RockPatternAnsweredWithPaper ==
  /\ LastCallWas("computer_move") => (ret.err = "none" /\ ret.val = 1)
  /\ (transition_matrix[VR] # InitialMatrix[VR]) =>
       LET row == transition_matrix[VR]
           bucket == [m \in Moves |-> FAdd(FAdd(row[m], row[m + 3]), row[m + 6])]
       IN FLt(bucket[1], bucket[0]) /\ FLt(bucket[2], bucket[0])

\* all PatternCalls calls observed VR itself; the row froze after the ninth
\* and computer_move(VR) still answers paper
WitnessRockPattern ==
  /\ calls = PatternCalls
  /\ LastCallWas("computer_move")
  /\ transition_matrix = BoundaryScenario(9)
  /\ transition_matrix[VR][VR].c = 92
  /\ ret.val = 1

\* the sum of the 9 cells of a row as a real number (no rounding)
ExactRowSum(vector) ==
  [c |-> vector[0].c + vector[1].c + vector[2].c + vector[3].c + vector[4].c
         + vector[5].c + vector[6].c + vector[7].c + vector[8].c,
   e |-> vector[0].e + vector[1].e + vector[2].e + vector[3].e + vector[4].e
         + vector[5].e + vector[6].e + vector[7].e + vector[8].e]

\* C12 as stated: before the first round all 81 cells hold one value, that
\* value is 1/9, and every row sums to 1 (to within the rounding of 1/9:
\* nine half-spacings of binary64 at 1/9, 9 * 2^-57).
InitialCellsAreOneNinth ==
  (round_counter = 0) =>
    \A r \in ConcreteStates :
      /\ \A col \in ConcreteStates : transition_matrix[r][col] = transition_matrix[VR][VR]
      /\ ExactRowSum(transition_matrix[r]).c = 100
      /\ ExactRowSum(transition_matrix[r]).e <= 900
      /\ ExactRowSum(transition_matrix[r]).e >= -900

\* C12 amended: before the first round all 81 cells hold one value, the
\* binary64 literal 0.11, and every row sums to 0.99 (nine times the
\* literal), not to 1.
InitialCellsAreElevenHundredths ==
  (round_counter = 0) =>
    \A r \in ConcreteStates :
      /\ \A col \in ConcreteStates : transition_matrix[r][col] = Float(11, 8)
      /\ ExactRowSum(transition_matrix[r]) = Float(99, 72)
      /\ FLt(ExactRowSum(transition_matrix[r]), One)

\* the table as the first round finds it, up to its update_probabilities
WitnessInitialMatrix ==
  /\ round_counter = 0
  /\ pc = "update_probabilities"
  /\ last_move_outcome = EM
  /\ transition_matrix[VR][VR] = Float(11, 8)
  /\ transition_matrix[TS][TS] = Float(11, 8)

Abs(n) == IF n < 0 THEN 0 - n ELSE n

\* C13: a round is played only while round_counter < 30 and -10 < score < 10:
\* at most 30 rounds are played, each adds 1 to round_counter and the round
\* result (+1, -1 or 0) to score, -10 <= score <= 10 and |score| <=
\* round_counter always hold, and once the score is 10 or -10 or 30 rounds
\* are played the only step left is the one that leaves the loop; and every
\* match whose player goes on entering lines, a move among them again and
\* again, reaches the end of game_handler.
MatchTerminates ==
  /\ <>(pc = "done")
  /\ [](/\ round_counter \in 0 .. 30
        /\ score \in -10 .. 10
        /\ Abs(score) <= round_counter
        /\ (pc \notin {"while", "done"}) => (round_counter < 30 /\ Abs(score) < 10))
  /\ [][/\ (pc = "update_probabilities") =>
             /\ round_result \in {1, -1, 0}
             /\ score' = score + round_result
             /\ round_counter' = round_counter + 1
        /\ (pc # "update_probabilities") =>
             (score' = score /\ round_counter' = round_counter)
        /\ (pc = "while" /\ (Abs(score) = 10 \/ round_counter = 30)) => pc' = "done"
        /\ pc # "done"]_vars

\* a match ended by the tenth win in a row
WitnessMatchWon ==
  /\ pc = "done"
  /\ score = 10
  /\ round_counter = 10

\* C14: update_probabilities(p, o) changes no cell outside row p; when the
\* guard fails (row[p][o] > upper_limit or min(row p) < bottom_limit) it
\* changes no cell at all and raises nothing; either way it returns the
\* observed state o, which is the previous state of the next round.
RejectedUpdateChangesNothing ==
  [][(pc = "update_probabilities") =>
      LET p == last_move_outcome
          o == StateValue(player_choice, round_result)
      IN /\ o \in ConcreteStates
         /\ last_move_outcome' = o
         /\ pc' = "while"
         /\ \A r \in ConcreteStates \ {p} :
              transition_matrix'[r] = transition_matrix[r]
         /\ (/\ p # EM
             /\ \/ FLt(upper_limit, transition_matrix[p][o])
                \/ \E j \in ConcreteStates : FLt(transition_matrix[p][j], bottom_limit))
            => transition_matrix' = transition_matrix]_vars

\* a round has just been scored whose update was rejected: the observed
\* cell is below 0.10, which no applied update leaves behind
WitnessRejectedInMatch ==
  /\ pc = "while"
  /\ round_counter >= 2
  /\ index_used.row \in ConcreteStates
  /\ index_used.col = last_move_outcome
  /\ transition_matrix[index_used.row][index_used.col].c < 10

\* a direct call update_probabilities(call'.a, call'.b, last_move_outcome)
ReinforceStep ==
  /\ calls' = calls + 1
  /\ call'.fn = "update_probabilities"
  /\ call'.last = last_move_outcome

\* C15 as stated: once a cell of a row is above upper_limit, no later
\* reinforce call on that row, with any observed state, changes any of the
\* row's 9 cells.
RowStopsOnceACellExceedsUpperLimit ==
  [][(/\ ReinforceStep
      /\ \E j \in ConcreteStates :
           FLt(upper_limit, transition_matrix[last_move_outcome][j]))
     => transition_matrix'[last_move_outcome] = transition_matrix[last_move_outcome]]_vars

\* C15 amended: while a cell of a row is above upper_limit, the calls on
\* that row that observe that cell's state are rejected and change nothing;
\* a call on the same row observing another state is still applied while
\* the row minimum is >= bottom_limit, and it lowers the high cell by
\* decrease_value, after which the cell may be <= upper_limit again and a
\* call observing its state be applied once more: the guard looks at the
\* row as it is, not at what it was.
HighCellRejectsOnlyItsOwnState ==
  [][ReinforceStep =>
      LET o == StateValue(call'.a, call'.b)
          old == transition_matrix[last_move_outcome]
          new == transition_matrix'[last_move_outcome]
      IN /\ FLt(upper_limit, old[o]) => transition_matrix' = transition_matrix
         /\ (/\ FLe(old[o], upper_limit)
             /\ \A j \in ConcreteStates : FLe(bottom_limit, old[j]))
            => /\ new # old
               /\ new[o] = FAdd(FSub(old[o], decrease_value), increase_value)
               /\ \A j \in ConcreteStates \ {o} :
                    new[j] = FSub(old[j], decrease_value)]_vars

\* row VR was driven to 0.92 at column VR by nine calls observing VR, the
\* tenth call, observing LP, was applied and took the high cell back to 0.91,
\* and the eleventh, observing VR again, was applied too: the cell ends just
\* below 1
WitnessHighCellLoweredAndRaised ==
  /\ last_move_outcome = VR
  /\ calls = 11
  /\ call = [fn |-> "update_probabilities", a |-> 0, b |-> 1, last |-> VR]
  /\ FLt(upper_limit, BoundaryScenario(9)[VR][VR])
  /\ LET lowered == update_probabilities(BoundaryScenario(9), 1, -1, VR).matrix
     IN /\ lowered # BoundaryScenario(9)
        /\ lowered[VR][VR] = FSub(BoundaryScenario(9)[VR][VR], decrease_value)
        /\ FLe(lowered[VR][VR], upper_limit)
        /\ transition_matrix = update_probabilities(lowered, 0, 1, VR).matrix
        /\ transition_matrix # lowered
  /\ transition_matrix[VR][VR].c = 100
  /\ FLt(transition_matrix[VR][VR], One)

\* the guard of update_probabilities, spelled out on a row and an observed
\* state
GuardPasses(vector, o) ==
  /\ FLe(vector[o], upper_limit)
  /\ \A j \in ConcreteStates : FLe(bottom_limit, vector[j])

\* ten roundings of at most half a spacing of binary64 below 1 (2^-54, 800
\* units of 2^-59/25 each) and the distance of the literals 0.1 and 0.01 from
\* the hundredths they stand for (80 - 9 * 3 units)
RowSumTolerance == 10 * 800 + 53

\* the row sum moved by hundredths / 100, to within RowSumTolerance
RowSumMovedBy(old, new, hundredths) ==
  /\ ExactRowSum(new).c - ExactRowSum(old).c = hundredths
  /\ Abs(ExactRowSum(new).e - ExactRowSum(old).e) <= RowSumTolerance

\* C16 as stated: a guard-passing reinforce call changes the sum of the
\* touched row by increase_value - 8 * decrease_value = +0.02; a rejected
\* call leaves the row sum unchanged.
RowSumDriftsByTwoHundredths ==
  [][ReinforceStep =>
      LET o == StateValue(call'.a, call'.b)
          old == transition_matrix[last_move_outcome]
          new == transition_matrix'[last_move_outcome]
      IN /\ GuardPasses(old, o) => RowSumMovedBy(old, new, 2)
         /\ (~GuardPasses(old, o)) => ExactRowSum(new) = ExactRowSum(old)]_vars

\* C16 amended: a guard-passing reinforce call subtracts decrease_value from
\* all 9 cells of the row, the observed one included, and adds increase_value
\* to the observed one, so the row sum changes by increase_value - 9 *
\* decrease_value = +0.01; a rejected call leaves the row sum unchanged.
RowSumDriftsByOneHundredth ==
  [][ReinforceStep =>
      LET o == StateValue(call'.a, call'.b)
          old == transition_matrix[last_move_outcome]
          new == transition_matrix'[last_move_outcome]
      IN /\ GuardPasses(old, o) => RowSumMovedBy(old, new, 1)
         /\ (~GuardPasses(old, o)) => ExactRowSum(new) = ExactRowSum(old)]_vars

\* eleven calls were made on a row, nine of them applied and two rejected:
\* the row sum went from 0.99 to 1.08
WitnessRowSumDrifted ==
  /\ calls = 11
  /\ LastCallWas("update_probabilities")
  /\ ExactRowSum(transition_matrix[last_move_outcome]).c = 108
  /\ ~GuardPasses(transition_matrix[last_move_outcome], StateValue(call.a, call.b))

\* the number of updates applied to the table so far: every applied update
\* raises the sum of the hundredths of its row by one, from 99 per row
AppliedUpdates ==
  ExactRowSum(transition_matrix[0]).c + ExactRowSum(transition_matrix[1]).c
  + ExactRowSum(transition_matrix[2]).c + ExactRowSum(transition_matrix[3]).c
  + ExactRowSum(transition_matrix[4]).c + ExactRowSum(transition_matrix[5]).c
  + ExactRowSum(transition_matrix[6]).c + ExactRowSum(transition_matrix[7]).c
  + ExactRowSum(transition_matrix[8]).c - 9 * 99

\* C17: in every round computer_move is called with the state the previous
\* round left (EM in the first) and reads the table before that round's
\* update; update_probabilities is called with that same previous state and
\* the newly encoded state, and only then is the previous state replaced;
\* nothing else changes the table, the update changes at most one row, and
\* after n rounds at most n - 1 updates have been applied.
PerRoundOrdering ==
  /\ [](/\ AppliedUpdates >= 0
        /\ AppliedUpdates <= (IF round_counter = 0 THEN 0 ELSE round_counter - 1)
        /\ (round_counter = 0) => last_move_outcome = EM
        /\ (round_counter > 0 /\ pc \in {"while", "done"}) =>
             last_move_outcome = StateValue(player_choice, round_result))
  /\ [][/\ (pc # "update_probabilities") =>
             /\ transition_matrix' = transition_matrix
             /\ last_move_outcome' = last_move_outcome
             /\ round_counter' = round_counter
        /\ (pc = "while") =>
             \/ pc' \in {"computer_move", "done", "EOFError"}
             \/ pc' = "while" /\ player_choice' = player_choice
        /\ (pc = "computer_move") =>
             /\ pc' = "decide_round_result"
             /\ computer_choice' =
                  computer_move(transition_matrix, last_move_outcome,
                                computer_choice').val
             /\ (last_move_outcome # EM) => index_used'.row = last_move_outcome
        /\ (pc = "decide_round_result") => pc' = "update_probabilities"
        /\ (pc = "update_probabilities") =>
             LET new_state == StateValue(player_choice, round_result)
             IN /\ pc' = "while"
                /\ round_counter' = round_counter + 1
                /\ last_move_outcome' = new_state
                /\ \A r \in ConcreteStates \ {last_move_outcome} :
                     transition_matrix'[r] = transition_matrix[r]
                /\ (last_move_outcome = EM) => transition_matrix' = transition_matrix
                /\ (last_move_outcome # EM) =>
                     /\ index_used' = [row |-> last_move_outcome, col |-> new_state]
                     /\ transition_matrix' =
                          update_probabilities(transition_matrix, player_choice,
                                               round_result, last_move_outcome).matrix]_vars

\* three rounds have been played and both updates they allow were applied,
\* the second one to the row of the state the first round left
WitnessTwoUpdatesInThreeRounds ==
  /\ pc = "while"
  /\ round_counter = 3
  /\ AppliedUpdates = 2
  /\ index_used.row \in ConcreteStates
  /\ index_used.col = last_move_outcome
  /\ index_used.row # index_used.col
  /\ transition_matrix[index_used.row][index_used.col].c = 20

\* ------------------------------------------------ two matches, one process
\* game_handler() is called again after it has returned: the locals of lines
\* 183-185 are assigned afresh, those of lines 191-195 are unassigned again,
\* the module-level table is whatever the earlier match left, and standard
\* input is read on from where the earlier match stopped
GameHandlerAgain ==
  /\ pc = "done"
  /\ calls < MaxMatches - 1
  /\ last_move_outcome' = EM
  /\ round_counter' = 0
  /\ score' = 0
  /\ pc' = "while"
  /\ call' = [fn |-> "game_handler", a |-> Unset, b |-> Unset, last |-> EM]
  /\ player_choice' = Unset
  /\ computer_choice' = Unset
  /\ round_result' = Unset
  /\ calls' = calls + 1
  /\ UNCHANGED <<transition_matrix, index_used, ret, stdin>>

NextTwoMatches ==
  \/ Next
  \/ GameHandlerAgain

SpecTwoMatches == Init /\ [][NextTwoMatches]_vars

\* C18: every match run in the process starts from the uniform initial
\* table with previous state EM, and so no update made by one match changes
\* a cell that another match's computer_move reads.
MatchesOwnTheirMatrix ==
  (pc = "while" /\ round_counter = 0) =>
    /\ last_move_outcome = EM
    /\ transition_matrix = InitialMatrix

\* a row with a cell below bottom_limit
FrozenRow(vector) ==
  \E j \in ConcreteStates : FLt(vector[j], bottom_limit)

\* the updates a row accepts when six of the nine states are never observed
\* on it: their cells go from 0.11 to 0.00 in 0.11 / 0.01 = 11 steps of
\* decrease_value
UpdatesUntilFrozen == InitialCell.c \div decrease_value.c

\* C19: a row with a cell below bottom_limit is frozen for good: every
\* update_probabilities call on it, whatever the observed state, changes
\* nothing, so computer_move for that previous state keeps returning the
\* counter of the same prediction; and a row accepts finitely many updates:
\* each applied update raises the row sum by 0.01 while every cell stays
\* <= 1, and in the runs explored the eleventh applied update is the last.
FrozenRowStaysFrozen ==
  /\ [](\A r \in ConcreteStates :
          /\ \A j \in ConcreteStates : FLe(transition_matrix[r][j], One)
          /\ ExactRowSum(transition_matrix[r]).c <= 99 + UpdatesUntilFrozen
          /\ (ExactRowSum(transition_matrix[r]).c = 99 + UpdatesUntilFrozen)
               => FrozenRow(transition_matrix[r]))
  /\ [][LET old == transition_matrix[last_move_outcome]
            new == transition_matrix'[last_move_outcome]
        IN /\ FrozenRow(old) =>
                /\ transition_matrix' = transition_matrix
                /\ (call'.fn = "computer_move") =>
                     /\ ret'.err = "none"
                     /\ ret'.val = counter_plays[ArgMax(DecisionVector(old))]
           /\ (ReinforceStep /\ new # old) =>
                /\ ~FrozenRow(old)
                /\ RowSumMovedBy(old, new, 1)]_vars

\* eleven updates were applied to a row, which left its unobserved cells
\* below bottom_limit, and the twelfth call on it has been rejected
WitnessFrozenRowCalled ==
  /\ calls = 12
  /\ LastCallWas("update_probabilities")
  /\ FrozenRow(transition_matrix[last_move_outcome])
  /\ ExactRowSum(transition_matrix[last_move_outcome]).c = 99 + UpdatesUntilFrozen
  /\ FLe(transition_matrix[last_move_outcome][StateValue(call.a, call.b)], upper_limit)

\* C20: the computer's move of a round does not depend on the move the
\* player entered in that round: player_move, although called first, changes
\* nothing that computer_move reads; in the first round each of the three
\* draws is possible whatever the player entered; from the second round on
\* the move is the counter of the prediction made from the row of the
\* previous state, and of nothing else.
ComputerMoveIgnoresPlayerMove ==
  /\ []((pc = "computer_move" /\ last_move_outcome = EM) =>
          \A m \in Moves : ENABLED (ComputerMove(m) /\ computer_choice' = m))
  /\ [][/\ (pc = "while" /\ pc' = "computer_move") =>
             /\ player_choice' \in Moves
             /\ UNCHANGED <<transition_matrix, last_move_outcome, round_counter,
                            score, computer_choice, round_result>>
        /\ (pc = "computer_move") =>
             /\ player_choice' = player_choice
             /\ (last_move_outcome = EM) =>
                  (round_counter = 0 /\ computer_choice' \in Moves)
             /\ (last_move_outcome # EM) =>
                  /\ round_counter >= 1
                  /\ computer_choice' =
                       counter_plays[ArgMax(DecisionVector(
                         transition_matrix[last_move_outcome]))]]_vars

\* in a round after the first the computer has moved and its move loses to
\* the one the player had already entered
WitnessComputerDidNotPeek ==
  /\ pc = "decide_round_result"
  /\ round_counter >= 1
  /\ last_move_outcome # EM
  /\ what_beats_what_dict[player_choice] = computer_choice
  /\ computer_choice =
       counter_plays[ArgMax(DecisionVector(transition_matrix[last_move_outcome]))]

====
